---- MODULE Spec2Model ----
(***************************************************************************)
(* The CORD-19 ETL of src/python/cord19q/etl.py: Etl.run reads the rows of *)
(* metadata.csv one by one, resolves the ids of each row, reads the body   *)
(* files, derives the tag, and inserts one articles row and one sections   *)
(* row per text fragment into articles.sqlite, committing once at the end. *)
(*                                                                         *)
(* Texts are TLA+ strings, so that substring search, lower-casing and      *)
(* splitting are computed character by character as Python computes them.  *)
(***************************************************************************)
EXTENDS Integers, Sequences, FiniteSets, TLC

VARIABLES
    pc,          \* position of Etl.run: "rows", "commit", "close", "closed", "aborted"
    consumed,    \* the rows csv.DictReader has yielded so far, in file order
    ids,         \* the set of generated ids (etl.py:311)
    aindex,      \* article index (etl.py:307)
    sindex,      \* section index (etl.py:308)
    articles,    \* rows of the articles table as seen by the connection
    sections,    \* rows of the sections table as seen by the connection
    committed,   \* what articles.sqlite durably holds: [articles, sections]
    commits,     \* number of db.commit() calls made
    stdout,      \* the lines printed by insert, read and run
    fragments,   \* getTags alone: its argument
    result,      \* getTags alone: its return value
    tpc          \* getTags alone: "call" before the call, "return" after it

vars == <<pc, consumed, ids, aindex, sindex, articles, sections, committed,
          commits, stdout, fragments, result, tpc>>

runVars == <<pc, consumed, ids, aindex, sindex, articles, sections, committed,
             commits, stdout>>

tagVars == <<fragments, result, tpc>>

(***************************************************************************)
(* Bounds of the model.                                                    *)
(***************************************************************************)
MaxRows == 2

MaxFragments == 2

(***************************************************************************)
(* Python values.                                                          *)
(***************************************************************************)
\* Python's None (a NULL column once stored); no text of the model equals it.
None == "<None>"

\* A lone surrogate, as json.load yields for the escape \ud800 in a body file;
\* sqlite3 cannot encode a str holding one and db.execute raises.
Surrogate == "\\ud800"

UpperCase == "ABCDEFGHIJKLMNOPQRSTUVWXYZ"

LowerCase == "abcdefghijklmnopqrstuvwxyz"

LowerOf == [c \in {SubSeq(UpperCase, i, i) : i \in 1..26} |->
              LET i == CHOOSE j \in 1..26 : SubSeq(UpperCase, j, j) = c
              IN  SubSeq(LowerCase, i, i)]

\* str.lower()
RECURSIVE lower(_)
lower(text) ==
    IF text = "" THEN ""
    ELSE LET c == SubSeq(text, 1, 1)
         IN  (IF c \in DOMAIN LowerOf THEN LowerOf[c] ELSE c)
             \o lower(SubSeq(text, 2, Len(text)))

\* Python's `sub in text` on two str
Contains(text, sub) ==
    \E i \in 1..(Len(text) - Len(sub) + 1) : SubSeq(text, i, i + Len(sub) - 1) = sub

\* the first index at which sub starts in text, 0 when it does not occur
Find(text, sub) ==
    IF Contains(text, sub)
    THEN CHOOSE i \in 1..(Len(text) - Len(sub) + 1) :
            /\ SubSeq(text, i, i + Len(sub) - 1) = sub
            /\ \A j \in 1..(i - 1) : SubSeq(text, j, j + Len(sub) - 1) # sub
    ELSE 0

\* str.split(sep): the list of the pieces between the occurrences of sep
RECURSIVE split(_, _)
split(text, sep) ==
    LET i == Find(text, sep)
    IN  IF i = 0 THEN <<text>>
        ELSE <<SubSeq(text, 1, i - 1)>> \o split(SubSeq(text, i + Len(sep), Len(text)), sep)

\* hashlib.sha1(title.encode("utf-8")).hexdigest(): the digest is modelled as
\* collision free: distinct titles have distinct digests, and no digest of a
\* title equals an id listed in a sha field (those are digests of body files).
sha1(title) == "sha1:" \o title

\* nltk's sent_tokenize on plain prose: a sentence ends with the full stop that
\* a space follows, or with the text.
RECURSIVE sent_tokenize(_)
sent_tokenize(text) ==
    IF text = "" THEN <<>>
    ELSE LET i == Find(text, ". ")
         IN  IF i = 0 THEN <<text>>
             ELSE <<SubSeq(text, 1, i)>> \o sent_tokenize(SubSeq(text, i + 2, Len(text)))

(***************************************************************************)
(* Etl.getTags                                                             *)
(***************************************************************************)
keywords ==
    <<"2019-ncov", "2019 novel coronavirus", "coronavirus 2019", "coronavirus disease 19",
      "covid-19", "covid 19", "ncov-2019", "sars-cov-2", "wuhan coronavirus",
      "wuhan pneumonia", "wuhan virus">>

\* any(x in text.lower() for x in keywords)
AnyKeyword(text) ==
    LET low == lower(text)
    IN  \E k \in 1..Len(keywords) : Contains(low, keywords[k])

\* getTagsLoop with the tag assigned on every pass: the last fragment decides
RECURSIVE getTagsLoopLastWins(_, _, _)
getTagsLoopLastWins(sects, n, tags) ==
    IF n > Len(sects) THEN tags
    ELSE getTagsLoopLastWins(sects, n + 1, IF AnyKeyword(sects[n]) THEN "COVID-19" ELSE None)

\* the for loop of getTags from fragment n on, tags being the value so far
RECURSIVE getTagsLoop(_, _, _)
getTagsLoop(sects, n, tags) ==
    IF n > Len(sects) THEN tags
    ELSE getTagsLoop(sects, n + 1, IF AnyKeyword(sects[n]) THEN "COVID-19" ELSE tags)

getTags(sects) == getTagsLoop(sects, 1, None)

(***************************************************************************)
(* The input: the rows of metadata.csv and the body files of the input     *)
(* directory.  Of a row only the columns the control flow reads are kept   *)
(* (sha, title, full_text_file); source_x, journal, authors, doi and       *)
(* publish_time are copied or parsed into the articles row and decide      *)
(* nothing else.  A title of None is the row shorter than the header,      *)
(* which csv.DictReader fills with None.                                   *)
(***************************************************************************)
ShaFields == {"", "a", "a; e", "c; b", "d; a"}

Titles == {"Study of flu", "COVID-19 report", None}

Subsets == {"", "S"}

Rows == [sha : ShaFields, title : Titles, full_text_file : Subsets]

Marker == "COVID-19 resource centre remains active"

\* open(<directory>/<subset>/<subset>/<uid>.json) and json.load of it:
\* "missing" when open raises, "malformed" when json.load raises.
BodyFile(subset, uid) ==
    IF subset # "S" THEN [state |-> "missing"]
    ELSE CASE uid = "a" ->
                [state |-> "ok",
                 body_text |-> << [text |-> "Wuhan Virus. It was mild."],
                                  [text |-> "The " \o Marker \o ". Free."],
                                  [text |-> "Hello world."] >>]
           [] uid = "e" ->
                [state |-> "ok",
                 body_text |-> << [text |-> "Flu " \o Surrogate \o " data. More flu."] >>]
           [] uid = "b" ->
                [state |-> "ok",
                 body_text |-> << [text |-> "Flu season."],
                                  [section |-> "Methods"],
                                  [text |-> "Lost."] >>]
           [] uid = "d" -> [state |-> "malformed"]
           [] OTHER -> [state |-> "missing"]

(***************************************************************************)
(* Etl.getIds: the ids of the row and the set of generated ids afterwards. *)
(* uids = <<>> stands for the None of the rejected duplicate.  A title of  *)
(* None has no encode method: the call raises before it touches ids.       *)
(***************************************************************************)
\* getIds without the rejection of a generated id seen before
getIdsNoDuplicateCheck(row, generated) ==
    IF row.sha # ""
    THEN [uids |-> split(row.sha, "; "), ids |-> generated, raised |-> FALSE]
    ELSE IF row.title = None
         THEN [uids |-> <<>>, ids |-> generated, raised |-> TRUE]
         ELSE [uids |-> <<sha1(row.title)>>, ids |-> generated \cup {sha1(row.title)},
               raised |-> FALSE]

\* getIds that also records, and rejects when seen before, the first explicit id
getIdsRejectingExplicit(row, generated) ==
    LET uids == IF row.sha # "" THEN split(row.sha, "; ")
                ELSE IF row.title = None THEN <<>> ELSE <<sha1(row.title)>>
    IN  IF row.sha = "" /\ row.title = None
        THEN [uids |-> <<>>, ids |-> generated, raised |-> TRUE]
        ELSE IF uids[1] \in generated
             THEN [uids |-> <<>>, ids |-> generated, raised |-> FALSE]
             ELSE [uids |-> uids, ids |-> generated \cup {uids[1]}, raised |-> FALSE]

getIds(row, generated) ==
    IF row.sha # ""
    THEN [uids |-> split(row.sha, "; "), ids |-> generated, raised |-> FALSE]
    ELSE IF row.title = None
         THEN [uids |-> <<>>, ids |-> generated, raised |-> TRUE]
         ELSE LET uid == sha1(row.title)
              IN  IF uid \in generated
                  THEN [uids |-> <<>>, ids |-> generated, raised |-> FALSE]
                  ELSE [uids |-> <<uid>>, ids |-> generated \cup {uid}, raised |-> FALSE]

(***************************************************************************)
(* Etl.read                                                                *)
(***************************************************************************)
\* readBlocks with the marker tested on each sentence instead of on the block
RECURSIVE readBlocksFilteringSentences(_, _, _)
readBlocksFilteringSentences(blocks, n, sects) ==
    IF n > Len(blocks) THEN [sections |-> sects, raised |-> FALSE]
    ELSE IF "text" \notin DOMAIN blocks[n] THEN [sections |-> sects, raised |-> TRUE]
    ELSE readBlocksFilteringSentences(blocks, n + 1,
             sects \o SelectSeq(sent_tokenize(blocks[n].text),
                                LAMBDA t : ~Contains(t, Marker)))

\* the loop over data["body_text"] from block n on: a block without a "text"
\* key raises out of the loop, and what was extended before it stays
RECURSIVE readBlocks(_, _, _)
readBlocks(blocks, n, sects) ==
    IF n > Len(blocks) THEN [sections |-> sects, raised |-> FALSE]
    ELSE IF "text" \notin DOMAIN blocks[n] THEN [sections |-> sects, raised |-> TRUE]
    ELSE IF ~Contains(blocks[n].text, Marker)
         THEN readBlocks(blocks, n + 1, sects \o sent_tokenize(blocks[n].text))
         ELSE readBlocks(blocks, n + 1, sects)

\* readFile that extends sections only once the whole file has been read
readFileAllOrNothing(subset, uid, sects, out) ==
    LET data  == BodyFile(subset, uid)
        error == [line |-> "Error processing text file", uid |-> uid]
    IN  IF data.state # "ok"
        THEN [sections |-> sects, stdout |-> Append(out, error)]
        ELSE LET r == readBlocks(data.body_text, 1, sects)
             IN  IF r.raised THEN [sections |-> sects, stdout |-> Append(out, error)]
                 ELSE [sections |-> r.sections, stdout |-> out]

\* the try block for one uid: every exception is caught and printed
readFile(subset, uid, sects, out) ==
    LET data  == BodyFile(subset, uid)
        error == [line |-> "Error processing text file", uid |-> uid]
    IN  IF data.state # "ok"
        THEN [sections |-> sects, stdout |-> Append(out, error)]
        ELSE LET r == readBlocks(data.body_text, 1, sects)
             IN  [sections |-> r.sections,
                  stdout   |-> IF r.raised THEN Append(out, error) ELSE out]

\* the loop over uids from the n-th on
RECURSIVE readUids(_, _, _, _, _)
readUids(subset, uids, n, sects, out) ==
    IF n > Len(uids) THEN [sections |-> sects, stdout |-> out]
    ELSE LET r == readFile(subset, uids[n], sects, out)
         IN  readUids(subset, uids, n + 1, r.sections, r.stdout)

read(row, out) ==
    LET uids   == IF row.sha # "" THEN split(row.sha, "; ") ELSE <<>>
        subset == row.full_text_file
    IN  IF uids # <<>> /\ subset # ""
        THEN readUids(subset, uids, 1, <<>>, out)
        ELSE [sections |-> <<>>, stdout |-> out]

(***************************************************************************)
(* Etl.insert and Etl.values.  An articles row is [Id, Title, Tags] (the   *)
(* other five columns are passed through), a sections row is               *)
(* [Id, Article, Text, Tags].                                              *)
(***************************************************************************)
\* Etl.values on the Id column: int(value) if value else 0 for the INTEGER
\* Id of sections, the value itself for the TEXT Id of articles
values(name, row) ==
    IF name = "sections" THEN [row EXCEPT !.Id = IF row.Id # 0 THEN row.Id ELSE 0]
    ELSE row

\* db.execute raises for a row whose Id (the primary key) is in the table, and
\* for a text that cannot be encoded as UTF-8
executeRaises(table, name, row) ==
    \/ \E r \in 1..Len(table) : table[r].Id = row.Id
    \/ Contains(IF name = "sections" THEN row.Text ELSE row.Title, Surrogate)

\* insert whose except branch rolls the transaction back
insertRollingBack(table, name, row, out) ==
    LET v == values(name, row)
    IN  IF executeRaises(table, name, v)
        THEN [table  |-> <<>>,
              stdout |-> Append(out, [line |-> "Error inserting row", table |-> name, row |-> row])]
        ELSE [table |-> Append(table, v), stdout |-> out]

insert(table, name, row, out) ==
    LET v == values(name, row)
    IN  IF executeRaises(table, name, v)
        THEN [table  |-> table,
              stdout |-> Append(out, [line |-> "Error inserting row", table |-> name, row |-> row])]
        ELSE [table |-> Append(table, v), stdout |-> out]

(***************************************************************************)
(* Etl.run                                                                 *)
(***************************************************************************)
\* insertSections with sindex advanced only when the insert stored the row
RECURSIVE insertSectionsCountingStored(_, _, _, _, _, _, _)
insertSectionsCountingStored(sects, n, index, table, out, uid, tags) ==
    IF n > Len(sects) THEN [sindex |-> index, table |-> table, stdout |-> out]
    ELSE LET r == insert(table, "sections",
                         [Id |-> index, Article |-> uid, Text |-> sects[n], Tags |-> tags], out)
         IN  insertSectionsCountingStored(sects, n + 1,
                 IF Len(r.table) > Len(table) THEN index + 1 ELSE index,
                 r.table, r.stdout, uid, tags)

\* the loop over sections from the n-th fragment on (etl.py:337-340)
RECURSIVE insertSections(_, _, _, _, _, _, _)
insertSections(sects, n, index, table, out, uid, tags) ==
    IF n > Len(sects) THEN [sindex |-> index, table |-> table, stdout |-> out]
    ELSE LET r == insert(table, "sections",
                         [Id |-> index, Article |-> uid, Text |-> sects[n], Tags |-> tags], out)
         IN  insertSections(sects, n + 1, index + 1, r.table, r.stdout, uid, tags)

\* aindex += 1 (etl.py:332)
nextAindex(index) == index + 1

\* print("Inserted {} articles") every 1000 articles (etl.py:333-334)
progress(index, out) ==
    IF index % 1000 = 0 THEN Append(out, [line |-> "Inserted articles", n |-> index]) ELSE out

Init ==
    /\ pc = "rows"
    /\ consumed = <<>>
    /\ ids = {}
    /\ aindex = 0
    /\ sindex = 0
    /\ articles = <<>>
    /\ sections = <<>>
    /\ committed = [articles |-> <<>>, sections |-> <<>>]
    /\ commits = 0
    /\ stdout = <<>>
    /\ fragments = <<>>
    /\ result = None
    /\ tpc = "return"

\* Raise with the commit in a finally clause: what was inserted is committed
RaiseCommitting(out) ==
    /\ pc' = "aborted"
    /\ stdout' = out
    /\ committed' = [articles |-> articles, sections |-> sections]
    /\ commits' = commits + 1
    /\ UNCHANGED <<ids, aindex, sindex, articles, sections>>

\* the exception leaves Etl.run: nothing was committed and nothing will be
Raise(out) ==
    /\ pc' = "aborted"
    /\ stdout' = out
    /\ UNCHANGED <<ids, aindex, sindex, articles, sections, committed, commits>>

\* one iteration of the loop over csv.DictReader (etl.py:314-340)
ProcessRow(row) ==
    /\ pc = "rows"
    /\ Len(consumed) < MaxRows
    /\ consumed' = Append(consumed, row)
    /\ UNCHANGED tagVars
    /\ LET g == getIds(row, ids)
       IN  IF g.raised THEN Raise(stdout)
           ELSE IF g.uids = <<>>
           THEN /\ ids' = g.ids
                /\ UNCHANGED <<pc, aindex, sindex, articles, sections, committed,
                               commits, stdout>>
           ELSE LET r     == read(row, stdout)
                    sects == <<row.title>> \o r.sections
                IN  IF row.title = None THEN Raise(r.stdout) \* None.lower() in getTags
                    ELSE LET tags == getTags(sects)
                             a    == insert(articles, "articles",
                                            [Id |-> g.uids[1], Title |-> row.title,
                                             Tags |-> tags], r.stdout)
                             n    == nextAindex(aindex)
                             s    == insertSections(sects, 1, sindex, sections,
                                                    progress(n, a.stdout), g.uids[1], tags)
                         IN  /\ ids' = g.ids
                             /\ articles' = a.table
                             /\ aindex' = n
                             /\ sections' = s.table
                             /\ sindex' = s.sindex
                             /\ stdout' = s.stdout
                             /\ UNCHANGED <<pc, committed, commits>>

\* the reader is exhausted: the total is printed (etl.py:342)
EndOfFile ==
    /\ pc = "rows"
    /\ pc' = "commit"
    /\ stdout' = Append(stdout, [line |-> "Total articles inserted", n |-> aindex])
    /\ UNCHANGED <<consumed, ids, aindex, sindex, articles, sections, committed, commits>>
    /\ UNCHANGED tagVars

\* what db.commit() makes durable
commit(db) == [articles |-> db.articles, sections |-> db.sections]

\* db.commit() (etl.py:345)
Commit ==
    /\ pc = "commit"
    /\ pc' = "close"
    /\ committed' = commit([articles |-> articles, sections |-> sections])
    /\ commits' = commits + 1
    /\ UNCHANGED <<consumed, ids, aindex, sindex, articles, sections, stdout>>
    /\ UNCHANGED tagVars

\* db.close() (etl.py:346)
Close ==
    /\ pc = "close"
    /\ pc' = "closed"
    /\ UNCHANGED <<consumed, ids, aindex, sindex, articles, sections, committed,
                   commits, stdout>>
    /\ UNCHANGED tagVars

Next ==
    \/ \E row \in Rows : ProcessRow(row)
    \/ EndOfFile
    \/ Commit
    \/ Close

Spec == Init /\ [][Next]_vars

(***************************************************************************)
(* Etl.getTags on its own, over every list of up to MaxFragments texts.    *)
(***************************************************************************)
Fragments ==
    {"", "Study of flu", "COVID-19 outbreak report", "covid 19", "SARS-CoV-2 spike",
     "The Wuhan Pneumonia", "corona virus 2019", "covid", "x2019-nCoVy"}

FragmentLists == UNION {[1..n -> Fragments] : n \in 0..MaxFragments}

InitTags ==
    /\ pc = "closed"
    /\ consumed = <<>>
    /\ ids = {}
    /\ aindex = 0
    /\ sindex = 0
    /\ articles = <<>>
    /\ sections = <<>>
    /\ committed = [articles |-> <<>>, sections |-> <<>>]
    /\ commits = 0
    /\ stdout = <<>>
    /\ fragments \in FragmentLists
    /\ result = None
    /\ tpc = "call"

CallGetTags ==
    /\ tpc = "call"
    /\ result' = getTags(fragments)
    /\ tpc' = "return"
    /\ UNCHANGED <<fragments, runVars>>

NextTags == CallGetTags

SpecTags == InitTags /\ [][NextTags]_vars

(***************************************************************************)
(* What the properties below speak of.                                     *)
(***************************************************************************)
\* the rows of a table that insert reported as failed, in the order reported
FailedRows(lines, name) ==
    SelectSeq(lines, LAMBDA l : l.line = "Error inserting row" /\ l.table = name)

IdsOf(rows) == {rows[i].Id : i \in 1..Len(rows)}

IsPrefix(s, t) == Len(s) <= Len(t) /\ SubSeq(t, 1, Len(s)) = s

EmptyStore == [articles |-> <<>>, sections |-> <<>>]

(***************************************************************************)
(* C1 as stated: the Section.Id values of the rows present in the sections *)
(* table, in insertion order, are 0, 1, 2, ... without gap or repeat, also *)
(* when some Etl.insert calls fail.                                        *)
(***************************************************************************)
C1_Contiguous == \A i \in 1..Len(sections) : sections[i].Id = i - 1

(***************************************************************************)
(* C1 as amended: the Section.Id values of the rows present in the         *)
(* sections table are strictly increasing in insertion order, and together *)
(* with the ids of the sections rows whose insert failed they are exactly  *)
(* 0 .. sindex-1, each id once: the sequence is contiguous from 0 as long  *)
(* as no sections insert has failed, and has a gap at each failed insert.  *)
(***************************************************************************)
C1_GapsOnlyAtFailedInserts ==
    LET stored == IdsOf(sections)
        failed == IdsOf([k \in 1..Len(FailedRows(stdout, "sections")) |->
                            FailedRows(stdout, "sections")[k].row])
    IN  /\ \A i, j \in 1..Len(sections) : i < j => sections[i].Id < sections[j].Id
        /\ stored \cap failed = {}
        /\ stored \cup failed = 0..(sindex - 1)
        /\ Len(sections) + Len(FailedRows(stdout, "sections")) = sindex
        /\ failed = {} => C1_Contiguous

\* a sections insert has failed, a later one of the same article and one of
\* the next article succeeded, and a duplicate row was skipped in between
C1_Witness ==
    /\ Len(consumed) >= 2
    /\ \E k \in 1..Len(FailedRows(stdout, "sections")) :
          \E i, j \in 1..Len(sections) :
              /\ FailedRows(stdout, "sections")[k].row.Id < sections[i].Id
              /\ sections[i].Id < sections[j].Id
              /\ sections[i].Article # sections[j].Article

(***************************************************************************)
(* C3 as stated: in every state of the output store, the Tags of each      *)
(* sections row equal the Tags of the articles row whose Id is the         *)
(* section's Article, also for rows that share an explicit identifier.     *)
(***************************************************************************)
C3_SectionTagsEqualParentTags ==
    \A i \in 1..Len(sections) : \A j \in 1..Len(articles) :
        articles[j].Id = sections[i].Article => sections[i].Tags = articles[j].Tags

(***************************************************************************)
(* C5: db.commit() is called at most once, and only after the last row was *)
(* processed and before db.close(); until then articles.sqlite durably     *)
(* holds no articles or sections row, so a run that aborts leaves none;    *)
(* once committed it holds every row the inserts stored.                   *)
(***************************************************************************)
C5_CommitOnceAtTheEnd ==
    /\ pc \in {"rows", "commit", "aborted"} => commits = 0 /\ committed = EmptyStore
    /\ pc \in {"close", "closed"} =>
          /\ commits = 1
          /\ committed = [articles |-> articles, sections |-> sections]

\* a run that aborted after rows had been inserted
C5_Witness ==
    /\ pc = "aborted"
    /\ Len(articles) >= 1
    /\ Len(sections) >= 2

(***************************************************************************)
(* C8: getTags returns "COVID-19" if and only if at least one fragment     *)
(* contains, case-insensitively, at least one of the keywords, and None    *)
(* otherwise, in particular for the empty list.                            *)
(***************************************************************************)
\* keyword kw stands in text at position i, letter case ignored
MatchesAt(text, i, kw) ==
    /\ i + Len(kw) - 1 <= Len(text)
    /\ \A j \in 1..Len(kw) : lower(SubSeq(text, i + j - 1, i + j - 1)) = SubSeq(kw, j, j)

C8_TagIffSomeFragmentHasKeyword ==
    tpc = "return" =>
        LET hit == \E n \in 1..Len(fragments) : \E k \in 1..Len(keywords) :
                      \E i \in 1..Len(fragments[n]) : MatchesAt(fragments[n], i, keywords[k])
        IN  /\ hit => result = "COVID-19"
            /\ ~hit => result = None

\* the keyword is in the first of two fragments, in capitals, and not in the last
C8_Witness ==
    /\ tpc = "return"
    /\ Len(fragments) = 2
    /\ fragments[1] = "SARS-CoV-2 spike"
    /\ fragments[2] = "Study of flu"
    /\ result = "COVID-19"

(***************************************************************************)
(* C10 as stated: the count printed as "Total articles inserted" equals    *)
(* the number of rows of the articles table at commit time.                *)
(***************************************************************************)
C10_TotalEqualsArticlesRows ==
    pc \in {"commit", "close", "closed"} =>
        /\ stdout[Len(stdout)].line = "Total articles inserted"
        /\ stdout[Len(stdout)].n = Len(articles)

(***************************************************************************)
(* One iteration of the loop of Etl.run, as seen from outside: the row it  *)
(* read, and the rows it handed to Etl.insert, each of which is afterwards *)
(* either stored in its table or printed as "Error inserting row".         *)
(***************************************************************************)
RowStep == consumed' # consumed

Current == consumed'[Len(consumed')]

NewArticles == SubSeq(articles', Len(articles) + 1, Len(articles'))

NewSections == SubSeq(sections', Len(sections) + 1, Len(sections'))

NewLines == SubSeq(stdout', Len(stdout) + 1, Len(stdout'))

NewFailed(name) ==
    LET failed == FailedRows(NewLines, name)
    IN  [k \in 1..Len(failed) |-> failed[k].row]

\* the articles rows and the sections rows the iteration handed to Etl.insert
ProducedArticles == NewArticles \o NewFailed("articles")

ProducedSections == NewSections \o NewFailed("sections")

\* the texts of the sections rows handed to Etl.insert, by increasing Section.Id;
\* <<>> unless their ids are sindex, sindex+1, ... each once
ProducedTexts ==
    LET rows == ProducedSections
    IN  IF \A k \in 1..Len(rows) : \E n \in 1..Len(rows) : rows[n].Id = sindex + k - 1
        THEN [k \in 1..Len(rows) |->
                 (CHOOSE r \in {rows[n] : n \in 1..Len(rows)} : r.Id = sindex + k - 1).Text]
        ELSE <<>>

\* "; " stands right after the first n characters of sha
SeparatorAfter(sha, n) == n + 2 <= Len(sha) /\ SubSeq(sha, n + 1, n + 2) = "; "

\* the first identifier of a non-empty sha field: what precedes its first "; "
FirstIdentifier(sha) ==
    LET n == CHOOSE n \in 0..Len(sha) :
                 /\ n = Len(sha) \/ SeparatorAfter(sha, n)
                 /\ \A m \in 0..(n - 1) : ~SeparatorAfter(sha, m)
    IN  SubSeq(sha, 1, n)

(***************************************************************************)
(* C2: of the rows with an empty sha field and the same title only the     *)
(* first is materialized: it yields its articles row, with the digest of   *)
(* the title as Id, and its sections row; every later one yields no        *)
(* articles row and no sections row, hands nothing to Etl.insert, and      *)
(* leaves the article counter and the section counter as they are.         *)
(***************************************************************************)
C2_OnlyFirstOfSameTitle ==
    [][ (RowStep /\ Current.sha = "" /\ Current.title # None) =>
          IF \E k \in 1..Len(consumed) :
                 consumed[k].sha = "" /\ consumed[k].title = Current.title
          THEN /\ articles' = articles
               /\ sections' = sections
               /\ aindex' = aindex
               /\ sindex' = sindex
               /\ stdout' = stdout
               /\ pc' = pc
          ELSE /\ Len(articles') = Len(articles) + 1
               /\ articles'[Len(articles')].Id = sha1(Current.title)
               /\ articles'[Len(articles')].Title = Current.title
               /\ sections' = Append(sections,
                                     [Id |-> sindex, Article |-> sha1(Current.title),
                                      Text |-> Current.title,
                                      Tags |-> articles'[Len(articles')].Tags])
               /\ aindex' = aindex + 1
               /\ sindex' = sindex + 1
      ]_vars

\* two rows without sha and with the same title were read; one was materialized
C2_Witness ==
    /\ Len(consumed) = 2
    /\ consumed[1].sha = "" /\ consumed[2].sha = ""
    /\ consumed[1].title = "COVID-19 report" /\ consumed[2].title = "COVID-19 report"
    /\ Len(articles) = 1 /\ articles[1].Id = sha1("COVID-19 report")
    /\ Len(sections) = 1
    /\ aindex = 1 /\ sindex = 1

(***************************************************************************)
(* C4: for a row whose sha field is not empty, getIds never signals a      *)
(* duplicate (the row is not skipped: its articles row is handed to        *)
(* Etl.insert), the set of generated ids stays as it is, and the articles  *)
(* row produced has the first identifier of the list as Id, unmodified,    *)
(* also when the same identifier appeared in an earlier row.               *)
(***************************************************************************)
C4_ExplicitIdUsedUnmodified ==
    [][ (RowStep /\ Current.sha # "") =>
          /\ ids' = ids
          /\ Current.title # None =>
                /\ aindex' = aindex + 1
                /\ Len(ProducedArticles) = 1
                /\ ProducedArticles[1].Id = FirstIdentifier(Current.sha)
                /\ \A n \in 1..Len(NewArticles) :
                      NewArticles[n].Id = FirstIdentifier(Current.sha)
      ]_vars

\* two rows with the same list of two identifiers were read: the first stored
\* its articles row under the first identifier, the second was not skipped
C4_Witness ==
    /\ Len(consumed) = 2
    /\ consumed[1].sha = "c; b" /\ consumed[2].sha = "c; b"
    /\ consumed[2].title # None
    /\ Len(articles) = 1 /\ articles[1].Id = "c"
    /\ aindex = 2
    /\ ids = {}

(***************************************************************************)
(* The fragments of a document, said without the loops of Etl.read: the    *)
(* title, then for each identifier in list order the sentences of the      *)
(* blocks of its body file, in file order, that stand before the first     *)
(* block without text and do not contain the marker.                       *)
(***************************************************************************)
RECURSIVE Concat(_)
Concat(seqs) == IF seqs = <<>> THEN <<>> ELSE Head(seqs) \o Concat(Tail(seqs))

LoadsCleanly(subset, uid) ==
    LET f == BodyFile(subset, uid)
    IN  /\ f.state = "ok"
        /\ \A b \in 1..Len(f.body_text) : "text" \in DOMAIN f.body_text[b]

ReachedBlocks(subset, uid) ==
    LET f == BodyFile(subset, uid)
    IN  IF f.state # "ok" THEN <<>>
        ELSE LET n == CHOOSE n \in 0..Len(f.body_text) :
                          /\ \A m \in 1..n : "text" \in DOMAIN f.body_text[m]
                          /\ n < Len(f.body_text) => "text" \notin DOMAIN f.body_text[n + 1]
             IN  SubSeq(f.body_text, 1, n)

BodySentences(subset, uid) ==
    LET kept == SelectSeq(ReachedBlocks(subset, uid), LAMBDA b : ~Contains(b.text, Marker))
    IN  Concat([k \in 1..Len(kept) |-> sent_tokenize(kept[k].text)])

Identifiers(row) == split(row.sha, "; ")

ExpectedFragments(row) ==
    <<row.title>> \o
    (IF row.sha # "" /\ row.full_text_file # ""
     THEN Concat([n \in 1..Len(Identifiers(row)) |->
                     BodySentences(row.full_text_file, Identifiers(row)[n])])
     ELSE <<>>)

\* the row names body files: it has identifiers, a subset and a title
HasBodyFiles(row) == row.sha # "" /\ row.full_text_file # "" /\ row.title # None

(***************************************************************************)
(* C6: when Etl.insert fails for a row, the failure does not leave         *)
(* Etl.insert: the run goes on with the loop, the rows stored before stay  *)
(* stored, of the rows of the iteration only the failed ones are absent,   *)
(* the sections rows of an article whose articles insert failed are still  *)
(* inserted, and at the end the commit makes durable every stored row.     *)
(***************************************************************************)
C6_InsertFailureIsLocal ==
    /\ [][ (RowStep /\ Len(NewFailed("articles")) + Len(NewFailed("sections")) > 0) =>
             /\ pc' = "rows"
             /\ IsPrefix(articles, articles')
             /\ IsPrefix(sections, sections')
             /\ aindex' = aindex + 1
             /\ Len(NewArticles) + Len(NewFailed("articles")) = 1
             /\ Len(NewSections) + Len(NewFailed("sections")) = Len(ExpectedFragments(Current))
             /\ \A k \in 1..Len(NewFailed("sections")) :
                   NewFailed("sections")[k].Id \notin IdsOf(sections')
             /\ \A k \in 1..Len(ExpectedFragments(Current)) :
                   sindex + k - 1 \in IdsOf(NewSections) \cup IdsOf(NewFailed("sections"))
             /\ Len(NewFailed("articles")) = 1 =>
                   /\ NewSections # <<>>
                   /\ NewSections[1] = [Id |-> sindex,
                                         Article |-> NewFailed("articles")[1].Id,
                                         Text |-> Current.title,
                                         Tags |-> NewFailed("articles")[1].Tags]
         ]_vars
    /\ [](pc = "closed" => committed = [articles |-> articles, sections |-> sections])

\* a run in which an articles insert and a sections insert failed was committed
\* with the rows inserted before and after the failures
C6_Witness ==
    /\ pc = "closed"
    /\ Len(FailedRows(stdout, "articles")) = 1
    /\ Len(FailedRows(stdout, "sections")) >= 1
    /\ Len(committed.articles) = 1
    /\ \E i, j \in 1..Len(committed.sections) :
          /\ committed.sections[i].Id < FailedRows(stdout, "sections")[1].row.Id
          /\ committed.sections[j].Id > FailedRows(stdout, "sections")[1].row.Id
          /\ committed.sections[j].Text = consumed[2].title

(***************************************************************************)
(* C7: when the body file of an identifier of a row is missing, malformed  *)
(* or has a block without text, Etl.read does not raise: the identifiers   *)
(* after it are still read, the fragments extracted before the failure are *)
(* kept, the run goes on with the loop, and the title sections row and the *)
(* articles row of the document are still produced, that is handed to      *)
(* Etl.insert; the title sections row is always stored.                    *)
(***************************************************************************)
FailingUids(row) ==
    {n \in 1..Len(Identifiers(row)) : ~LoadsCleanly(row.full_text_file, Identifiers(row)[n])}

C7_BodyFileFailureIsLocal ==
    [][ (RowStep /\ HasBodyFiles(Current) /\ FailingUids(Current) # {}) =>
          /\ pc' = "rows"
          /\ ProducedTexts = ExpectedFragments(Current)
          /\ NewSections # <<>>
          /\ NewSections[1].Id = sindex
          /\ NewSections[1].Text = Current.title
          /\ NewSections[1].Article = FirstIdentifier(Current.sha)
          /\ Len(ProducedArticles) = 1
          /\ ProducedArticles[1].Id = FirstIdentifier(Current.sha)
          /\ ProducedArticles[1].Title = Current.title
          /\ Len(SelectSeq(NewLines, LAMBDA l : l.line = "Error processing text file"))
                = Cardinality(FailingUids(Current))
      ]_vars

\* the file of "c" is missing and that of "b" breaks at its second block: the
\* sentence of the first block of "b" is stored after the title, and the
\* next row was processed
C7_Witness ==
    /\ Len(consumed) = 2
    /\ consumed[1] = [sha |-> "c; b", title |-> "Study of flu", full_text_file |-> "S"]
    /\ Len(articles) >= 1 /\ articles[1].Id = "c"
    /\ Len(sections) >= 3
    /\ sections[1].Text = "Study of flu"
    /\ sections[2].Text = "Flu season."
    /\ sections[3].Article # "c"

(***************************************************************************)
(* C9: for a document whose body files all load, the sections rows emitted *)
(* for it, by increasing Section.Id, are exactly the title, then for each  *)
(* identifier in list order and each block in file order the sentences of  *)
(* the block in order, the blocks that contain the marker left out whole   *)
(* and the blocks beside them kept.  The rows emitted are the rows handed  *)
(* to Etl.insert: each is stored, or printed as failed when db.execute     *)
(* raises on it.                                                           *)
(***************************************************************************)
C9_SectionsInDocumentOrder ==
    [][ (RowStep /\ HasBodyFiles(Current) /\ FailingUids(Current) = {}) =>
          /\ ProducedTexts = ExpectedFragments(Current)
          /\ Len(ProducedSections) = Len(ExpectedFragments(Current))
          /\ sindex' = sindex + Len(ExpectedFragments(Current))
          /\ \A n \in 1..Len(ProducedSections) :
                ProducedSections[n].Article = FirstIdentifier(Current.sha)
          /\ \A n, m \in 1..Len(NewSections) : n < m => NewSections[n].Id < NewSections[m].Id
          /\ \A n \in 1..Len(ProducedTexts) : ~Contains(ProducedTexts[n], "Free.")
      ]_vars

\* the document of the files "a" and "e": the title, the two sentences of the
\* first block of "a", its third block (the second holds the marker), then "e"
C9_Witness ==
    /\ Len(consumed) = 1
    /\ consumed[1] = [sha |-> "a; e", title |-> "Study of flu", full_text_file |-> "S"]
    /\ sindex = 6
    /\ Len(sections) = 5
    /\ sections[1].Text = "Study of flu"
    /\ sections[2].Text = "Wuhan Virus."
    /\ sections[3].Text = "It was mild."
    /\ sections[4].Text = "Hello world."
    /\ sections[5].Text = "More flu." /\ sections[5].Id = 5

====
